---- MODULE Spec2Model ----
(***************************************************************************)
(* mouse-sqlite3: Connection (src/src/connection.rs) and Stmt              *)
(* (src/src/stmt.rs), a wrapper over the C API of SQLite.                  *)
(*                                                                         *)
(* The wrapper's own state is `conn`, `stmts` (the statement cache) and    *)
(* `stmt` (the Stmt objects).  The native engine is the environment: `ndb` *)
(* is the state of the sqlite3 handle and `nat` the state of every         *)
(* sqlite3_stmt handle.  `ncalls` is the sequence of native calls made by  *)
(* the most recent wrapper operation and `last` describes that operation.  *)
(***************************************************************************)
EXTENDS Integers, Sequences, FiniteSets, TLC

VARIABLES conn, ndb, stmts, stmt, nat, cur, ncalls, last

vars == <<conn, ndb, stmts, stmt, nat, cur, ncalls, last>>

(*------------------------------ bounds ----------------------------------*)
\* Number of sqlite3_stmt handles the engine hands out in one behaviour.
MaxHandles == 2

(*------------------------- program constants ----------------------------*)
\* Largest value of std::os::raw::c_int.
C_INT_MAX == 2147483647

\* A usize: its value is hi * 2^31 + lo with 0 <= lo <= C_INT_MAX, so that
\* values beyond the range of c_int can be written.
USize(hi, lo) == [hi |-> hi, lo |-> lo]

\* c_int::try_from(x).is_ok() and the c_int it yields.
FitsCInt(x) == x.hi = 0

AsCInt(x) == x.lo

\* x < (c as usize), for a c_int c >= 0.
USizeLess(x, c) == x.hi = 0 /\ x.lo < c

Handles == 1..MaxHandles
NoHandle == 0
\* The addresses of the static query strings the caller passes to stmt().
Addrs == {1, 2, 3}

(*--------------------------- query texts --------------------------------*)
\* "select": SELECT ?1            one parameter, one result column, one row
\* "ddl":    CREATE TABLE ...     no parameter, no column, no row
\* "literal": SELECT 'x'          no parameter, one result column (a text), one row
\* "huge":   a text whose byte length does not fit c_int
\* "empty":  a text that holds no statement (sqlite3_prepare_v2 then succeeds
\*           and hands back a null statement)
Texts == {"select", "literal", "ddl", "huge", "empty"}

\* The text stored at each static address: addresses 1 and 2 hold two
\* distinct literals with the same content.
TextOf(a) == CASE a = 1 -> "select"
               [] a = 2 -> "select"
               [] OTHER -> "huge"

TextLen(t) == CASE t = "select" -> USize(0, 9)
                [] t = "literal" -> USize(0, 10)
                [] t = "ddl" -> USize(0, 40)
                [] t = "empty" -> USize(0, 0)
                [] OTHER -> USize(1, 0)

NParams(t) == IF t = "select" THEN 1 ELSE 0

ColumnCount(t) == IF t \in {"select", "literal"} THEN 1 ELSE 0

\* Whether executing the text yields a row.
HasRow(t) == t \in {"select", "literal"}

(*------------------------------ values ----------------------------------*)
NullV == [t |-> "null", v |-> 0]
IntV(i) == [t |-> "int", v |-> i]
BlobV(len) == [t |-> "blob", v |-> len]
TextV == [t |-> "text", v |-> 0]

IntVals == {-1, 7}
BlobLens == {USize(0, 2), USize(1, 0)}
BindIndexes == {USize(0, 0), USize(0, 1), USize(1, 0)}
ColumnIndexes == {USize(0, 0), USize(0, 1)}

(*--------------------------- return values ------------------------------*)
\* kind: "unit" (Ok(())), "bool" (Ok(b)), "stmt" (Ok(handle h)), "none",
\* "some" (Some(val)), "err" (Err(code)), "panic", "void" (no result).
Ret(kind, code, b, h, val) ==
    [kind |-> kind, code |-> code, b |-> b, h |-> h, val |-> val]
Void == Ret("void", "", FALSE, NoHandle, NullV)
Unit == Ret("unit", "", FALSE, NoHandle, NullV)
OkBool(b) == Ret("bool", "", b, NoHandle, NullV)
OkStmt(h) == Ret("stmt", "", FALSE, h, NullV)
None == Ret("none", "", FALSE, NoHandle, NullV)
Some(val) == Ret("some", "", FALSE, NoHandle, val)
Err(code) == Ret("err", code, FALSE, NoHandle, NullV)
Panic == Ret("panic", "", FALSE, NoHandle, NullV)

(*--------------------- records of the two layers ------------------------*)
\* A Stmt object: where it lives ("none": not constructed, "cache": owned by
\* Connection::stmts, "caller": returned by stmt_once, "dropped") and its
\* fields; key is the address it is cached under (0: not cached).
NoStmt == [where |-> "none", key |-> 0, is_row |-> FALSE, column_count |-> 0]

\* A native sqlite3_stmt: alloc is "free", "live" or "finalized"; exec is
\* "ready" (reset), "row" (positioned on a row) or "halt" (stepped to
\* completion or to an error and not yet reset); err is the status of the
\* failed step, which sqlite3_reset reports; fin counts sqlite3_finalize.
\* binds[i] is the value bound to parameter i (NULL when never bound).
NoNative == [alloc |-> "free", text |-> "ddl", exec |-> "ready",
             err |-> "SQLITE_OK", binds |-> <<>>, fin |-> 0]

\* One native call: function, handle (0: the database handle), the
\* statement's execution state when the call was made, the status returned.
Call(f, h, ex, rc) == [f |-> f, h |-> h, ex |-> ex, rc |-> rc]

NoPre == [w |-> NoStmt, n |-> NoNative]

NoIndex == USize(0, 0)


(***************************************************************************)
(* The native engine, as the wrapper sees it through the C API.            *)
(***************************************************************************)

\* sqlite3_reset: back to the initial execution state, bindings untouched,
\* whatever status it returns.  The status is that of the step that failed,
\* if one did; resetting a statement that is on a row can itself run into a
\* new error, whose status is `fresh` ("SQLITE_OK": none).
sqlite3_reset_rc(n, fresh) ==
    CASE n.exec = "halt" -> n.err
      [] n.exec = "row" -> fresh
      [] OTHER -> "SQLITE_OK"

\* The statuses `fresh` can take for a statement.
ResetStatuses(n) ==
    IF n.exec = "row" THEN {"SQLITE_OK", "SQLITE_BUSY"} ELSE {"SQLITE_OK"}

sqlite3_reset(n) == [n EXCEPT !.exec = "ready", !.err = "SQLITE_OK"]

\* sqlite3_clear_bindings: every parameter becomes NULL.
sqlite3_clear_bindings(n, rc) ==
    IF rc = "SQLITE_OK"
    THEN [n EXCEPT !.binds = [i \in 1..Len(n.binds) |-> NullV]]
    ELSE n

\* The statuses sqlite3_step can return: a select yields its one row and
\* then completes, a ddl completes at once, and any step can fail.
StepStatuses(n) ==
    (IF HasRow(n.text) /\ n.exec # "row" THEN {"SQLITE_ROW"} ELSE {"SQLITE_DONE"})
        \cup {"SQLITE_BUSY"}

sqlite3_step(n, rc) ==
    CASE rc = "SQLITE_ROW" -> [n EXCEPT !.exec = "row", !.err = "SQLITE_OK"]
      [] rc = "SQLITE_DONE" -> [n EXCEPT !.exec = "halt", !.err = "SQLITE_OK"]
      [] OTHER -> [n EXCEPT !.exec = "halt", !.err = rc]

\* sqlite3_bind_*: refused on a statement that is mid-execution, and for
\* an index that names no parameter.
sqlite3_bind_rc(n, index) ==
    CASE n.exec # "ready" -> "SQLITE_MISUSE"
      [] index < 1 \/ index > Len(n.binds) -> "SQLITE_RANGE"
      [] OTHER -> "SQLITE_OK"

sqlite3_bind(n, index, val, rc) ==
    IF rc = "SQLITE_OK" THEN [n EXCEPT !.binds[index] = val] ELSE n

\* sqlite3_column_type / sqlite3_column_int64 / sqlite3_column_blob on the
\* current row: column 0 of SELECT ?1 is the value bound to parameter 1,
\* column 0 of SELECT 'x' is a text.
sqlite3_column_value(n, index) ==
    CASE n.exec = "row" /\ n.text = "literal" /\ index = 0 -> TextV
      [] n.exec = "row" /\ index < Len(n.binds) -> n.binds[index + 1]
      [] OTHER -> NullV

sqlite3_column_type(n, index) ==
    CASE sqlite3_column_value(n, index).t = "int" -> "SQLITE_INTEGER"
      [] sqlite3_column_value(n, index).t = "blob" -> "SQLITE_BLOB"
      [] sqlite3_column_value(n, index).t = "text" -> "SQLITE_TEXT"
      [] OTHER -> "SQLITE_NULL"

\* sqlite3_finalize: the handle is released and nothing of the statement
\* remains.
sqlite3_finalize(n) == [NoNative EXCEPT !.alloc = "finalized", !.fin = n.fin + 1]

(***************************************************************************)
(* Stmt (src/src/stmt.rs).  A method is an operator on a context           *)
(* m = [h, w, n, calls, ret]: the handle, the Stmt object, the native      *)
(* statement, the native calls made so far and the value returned.         *)
(***************************************************************************)
Ctx(h) == [h |-> h, w |-> stmt[h], n |-> nat[h], calls |-> <<>>, ret |-> Void]

Native(m, f, rc, n2) ==
    [m EXCEPT !.n = n2, !.calls = Append(@, Call(f, m.h, m.n.exec, rc))]

\* A mutant of reset: the bindings are cleared too.
reset_clearsBindings(m, rrc) ==
    [Native(m, "sqlite3_reset", sqlite3_reset_rc(m.n, rrc),
            sqlite3_clear_bindings(sqlite3_reset(m.n), "SQLITE_OK"))
        EXCEPT !.w.is_row = FALSE]

\* A mutant of reset: the flag is cleared and the engine is not told.
reset_flagOnly(m, rrc) == [m EXCEPT !.w.is_row = FALSE]

reset(m, rrc) ==
    [Native(m, "sqlite3_reset", sqlite3_reset_rc(m.n, rrc), sqlite3_reset(m.n))
        EXCEPT !.w.is_row = FALSE]

\* A mutant of clear: the bindings are left as they are.
clear_resetOnly(m, rc, rrc) == [reset(m, rrc) EXCEPT !.ret = Unit]

clear(m, rc, rrc) ==
    LET m1 == reset(m, rrc)
        m2 == Native(m1, "sqlite3_clear_bindings", rc, sqlite3_clear_bindings(m1.n, rc))
    IN  [m2 EXCEPT !.ret = IF rc # "SQLITE_OK" THEN Panic ELSE Unit]

\* A mutant of step: the statement is reset after a row, too.
step_resetAlways(m, rc) ==
    LET m1 == reset(Native(m, "sqlite3_step", rc, sqlite3_step(m.n, rc)), "SQLITE_OK")
    IN  CASE rc = "SQLITE_DONE" -> [m1 EXCEPT !.ret = OkBool(FALSE)]
          [] rc = "SQLITE_ROW" -> [m1 EXCEPT !.ret = OkBool(TRUE)]
          [] OTHER -> [m1 EXCEPT !.ret = Err(rc)]

\* A mutant of step: no reset when the statement completes.
step_noResetOnDone(m, rc) ==
    LET m1 == Native(m, "sqlite3_step", rc, sqlite3_step(m.n, rc))
    IN  CASE rc = "SQLITE_DONE" -> [m1 EXCEPT !.ret = OkBool(FALSE)]
          [] rc = "SQLITE_ROW" -> [m1 EXCEPT !.w.is_row = TRUE, !.ret = OkBool(TRUE)]
          [] OTHER -> [reset(m1, "SQLITE_OK") EXCEPT !.ret = Err(rc)]

step(m, rc) ==
    LET m1 == Native(m, "sqlite3_step", rc, sqlite3_step(m.n, rc))
    IN  CASE rc = "SQLITE_DONE" -> [reset(m1, "SQLITE_OK") EXCEPT !.ret = OkBool(FALSE)]
          [] rc = "SQLITE_ROW" -> [m1 EXCEPT !.w.is_row = TRUE, !.ret = OkBool(TRUE)]
          [] OTHER -> [reset(m1, "SQLITE_OK") EXCEPT !.ret = Err(rc)]

\* The common shape of bind_int / bind_blob / bind_null once the arguments
\* are converted: the native bind and the mapping of its status.
NativeBind(m, f, index, val) ==
    LET rc == sqlite3_bind_rc(m.n, index)
        m1 == Native(m, f, rc, sqlite3_bind(m.n, index, val, rc))
    IN  [m1 EXCEPT !.ret = IF rc = "SQLITE_OK" THEN Unit ELSE Err(rc)]

\* A mutant of ResetIfRow: no reset before the bind.
ResetIfRow_never(m, rrc) == m

\* `if self.is_row { self.reset(); }`, which opens the three bind methods.
ResetIfRow(m, rrc) == IF m.w.is_row THEN reset(m, rrc) ELSE m

\* A mutant of bind_int: the value goes through an unsigned conversion and
\* loses its sign.
bind_int_unsigned(m, index, val, rrc) ==
    LET m1 == ResetIfRow(m, rrc)
    IN  IF ~FitsCInt(index)
        THEN [m1 EXCEPT !.ret = Err("SQLITE_RANGE")]
        ELSE NativeBind(m1, "sqlite3_bind_int64", AsCInt(index),
                        IntV(IF val < 0 THEN -val ELSE val))

bind_int(m, index, val, rrc) ==
    LET m1 == ResetIfRow(m, rrc)
    IN  IF ~FitsCInt(index)
        THEN [m1 EXCEPT !.ret = Err("SQLITE_RANGE")]
        ELSE NativeBind(m1, "sqlite3_bind_int64", AsCInt(index), IntV(val))

\* A mutant of bind_blob: the length is converted before the index.
bind_blob_lenFirst(m, index, len, rrc) ==
    LET m1 == ResetIfRow(m, rrc)
    IN  IF ~FitsCInt(len)
        THEN [m1 EXCEPT !.ret = Err("SQLITE_TOOBIG")]
        ELSE IF ~FitsCInt(index)
        THEN [m1 EXCEPT !.ret = Err("SQLITE_RANGE")]
        ELSE NativeBind(m1, "sqlite3_bind_blob", AsCInt(index), BlobV(AsCInt(len)))

bind_blob(m, index, len, rrc) ==
    LET m1 == ResetIfRow(m, rrc)
    IN  IF ~FitsCInt(index)
        THEN [m1 EXCEPT !.ret = Err("SQLITE_RANGE")]
        ELSE IF ~FitsCInt(len)
        THEN [m1 EXCEPT !.ret = Err("SQLITE_TOOBIG")]
        ELSE NativeBind(m1, "sqlite3_bind_blob", AsCInt(index), BlobV(AsCInt(len)))

\* A mutant of bind_null: the index is converted before the statement is
\* reset.
bind_null_convertFirst(m, index, rrc) ==
    IF ~FitsCInt(index)
    THEN [m EXCEPT !.ret = Err("SQLITE_RANGE")]
    ELSE NativeBind(ResetIfRow(m, rrc), "sqlite3_bind_null", AsCInt(index), NullV)

bind_null(m, index, rrc) ==
    LET m1 == ResetIfRow(m, rrc)
    IN  IF ~FitsCInt(index)
        THEN [m1 EXCEPT !.ret = Err("SQLITE_RANGE")]
        ELSE NativeBind(m1, "sqlite3_bind_null", AsCInt(index), NullV)

\* A mutant of ColumnPrecondition: the index is not checked.
ColumnPrecondition_rowOnly(m, index) == m.w.is_row

\* The two assertions that open column_int and column_blob.
ColumnPrecondition(m, index) == m.w.is_row /\ USizeLess(index, m.w.column_count)

column_int(m, index) ==
    IF ~ColumnPrecondition(m, index)
    THEN [m EXCEPT !.ret = Panic]
    ELSE LET i == AsCInt(index)
             ty == sqlite3_column_type(m.n, i)
             m1 == Native(m, "sqlite3_column_type", ty, m.n)
         IN  CASE ty = "SQLITE_NULL" -> [m1 EXCEPT !.ret = None]
               [] ty = "SQLITE_INTEGER" ->
                    [Native(m1, "sqlite3_column_int64", "", m1.n)
                        EXCEPT !.ret = Some(sqlite3_column_value(m.n, i))]
               [] OTHER -> [m1 EXCEPT !.ret = Panic]

\* A mutant of column_blob: every non-NULL column is read as a blob, the
\* engine converting it.
column_blob_coercing(m, index) ==
    IF ~ColumnPrecondition(m, index)
    THEN [m EXCEPT !.ret = Panic]
    ELSE LET i == AsCInt(index)
             ty == sqlite3_column_type(m.n, i)
             m1 == Native(m, "sqlite3_column_type", ty, m.n)
         IN  IF ty = "SQLITE_NULL"
             THEN [m1 EXCEPT !.ret = None]
             ELSE [Native(Native(m1, "sqlite3_column_blob", "", m1.n),
                          "sqlite3_column_bytes", "", m1.n)
                      EXCEPT !.ret = Some(sqlite3_column_value(m.n, i))]

column_blob(m, index) ==
    IF ~ColumnPrecondition(m, index)
    THEN [m EXCEPT !.ret = Panic]
    ELSE LET i == AsCInt(index)
             ty == sqlite3_column_type(m.n, i)
             m1 == Native(m, "sqlite3_column_type", ty, m.n)
         IN  CASE ty = "SQLITE_NULL" -> [m1 EXCEPT !.ret = None]
               [] ty = "SQLITE_BLOB" ->
                    [Native(Native(m1, "sqlite3_column_blob", "", m1.n),
                            "sqlite3_column_bytes", "", m1.n)
                        EXCEPT !.ret = Some(sqlite3_column_value(m.n, i))]
               [] OTHER -> [m1 EXCEPT !.ret = Panic]

\* Drop for Stmt.
drop_stmt(m) ==
    [Native(m, "sqlite3_finalize", "SQLITE_OK", sqlite3_finalize(m.n))
        EXCEPT !.w = [NoStmt EXCEPT !.where = "dropped", !.key = m.w.key]]

Init ==
    /\ conn = "none"
    /\ ndb = [state |-> "null", closes |-> 0]
    /\ stmts = [a \in Addrs |-> NoHandle]
    /\ stmt = [h \in Handles |-> NoStmt]
    /\ nat = [h \in Handles |-> NoNative]
    /\ cur = NoHandle
    /\ ncalls = <<>>
    /\ last = [op |-> "init", h |-> NoHandle, a |-> 0, idx |-> NoIndex,
               val |-> NullV, len |-> NoIndex,
               ret |-> Void, pre |-> NoPre, pre_stmts |-> stmts]


(***************************************************************************)
(* Connection (src/src/connection.rs).  A method is an operator on a       *)
(* context k = [conn, ndb, stmts, stmt, nat, calls, ret].                  *)
(***************************************************************************)
K0 == [conn |-> conn, ndb |-> ndb, stmts |-> stmts, stmt |-> stmt, nat |-> nat,
       calls |-> <<>>, ret |-> Void]

\* The context of statement h inside k, and k with that statement's context
\* written back.
CtxIn(k, h) == [h |-> h, w |-> k.stmt[h], n |-> k.nat[h], calls |-> k.calls, ret |-> Void]

Merge(k, m) ==
    [k EXCEPT !.stmt[m.h] = m.w, !.nat[m.h] = m.n, !.calls = m.calls, !.ret = m.ret]

\* The statements of the connection the engine still holds.
Unfinalized(k) == {h \in Handles : k.nat[h].alloc = "live"}

FreeHandles(k) == {h \in Handles : k.nat[h].alloc = "free"}

\* The handle sqlite3_prepare_v2 hands out: one never handed out before.
FreshHandle(k) == CHOOSE h \in FreeHandles(k) : \A g \in FreeHandles(k) : h <= g

\* crate::stmt_from_raw: the Stmt wrapping a freshly prepared handle.
stmt_from_raw(n) ==
    [where |-> "caller", key |-> 0, is_row |-> FALSE, column_count |-> ColumnCount(n.text)]

\* sqlite3_prepare_v2 on success: a statement in its initial state, every
\* parameter NULL.
sqlite3_prepare_v2(sql) ==
    [alloc |-> "live", text |-> sql, exec |-> "ready", err |-> "SQLITE_OK",
     binds |-> [i \in 1..NParams(sql) |-> NullV], fin |-> 0]

build_stmt(k, sql, rc) ==
    IF ~FitsCInt(TextLen(sql))
    THEN [k EXCEPT !.ret = Err("SQLITE_TOOBIG")]
    ELSE LET k1 == [k EXCEPT !.calls = Append(@, Call("sqlite3_prepare_v2", NoHandle, "", rc))]
         IN  IF rc # "SQLITE_OK"
             THEN [k1 EXCEPT !.ret = Err(rc)]
             ELSE IF sql = "empty"
             THEN [k1 EXCEPT !.ret = Panic]
             ELSE LET h == FreshHandle(k)
                      n == sqlite3_prepare_v2(sql)
                  IN  [k1 EXCEPT !.nat[h] = n,
                                 !.stmt[h] = stmt_from_raw(n),
                                 !.ret = OkStmt(h)]

\* A mutant of Entry: the key is compared by content, not by address.
EntryByContent(k, a) ==
    IF \E b \in Addrs : TextOf(b) = TextOf(a) /\ k.stmts[b] # NoHandle
    THEN k.stmts[CHOOSE b \in Addrs : TextOf(b) = TextOf(a) /\ k.stmts[b] # NoHandle]
    ELSE NoHandle

\* self.stmts.entry(Sql(sql.as_ptr())): the handle cached under the address
\* a, NoHandle when the entry is vacant.
Entry(k, a) == k.stmts[a]

\* Connection::stmt.
stmt_hit(k, h, crc, rrc) ==
    LET k1 == Merge(k, clear(CtxIn(k, h), crc, rrc))
    IN  IF k1.ret = Panic THEN k1 ELSE [k1 EXCEPT !.ret = OkStmt(h)]

\* A mutant of stmt_miss: a failed preparation empties the cache.
stmt_miss_evicting(k, a, prc) ==
    LET k1 == build_stmt(k, TextOf(a), prc)
    IN  IF k1.ret.kind = "stmt"
        THEN [k1 EXCEPT !.stmts[a] = k1.ret.h,
                        !.stmt[k1.ret.h].where = "cache",
                        !.stmt[k1.ret.h].key = a]
        ELSE [k1 EXCEPT !.stmts = [b \in Addrs |-> NoHandle]]

stmt_miss(k, a, prc) ==
    LET k1 == build_stmt(k, TextOf(a), prc)
    IN  IF k1.ret.kind = "stmt"
        THEN [k1 EXCEPT !.stmts[a] = k1.ret.h,
                        !.stmt[k1.ret.h].where = "cache",
                        !.stmt[k1.ret.h].key = a]
        ELSE k1

\* A mutant of stmt_fn: the cache is never consulted.
stmt_noLookup(k, a, prc, crc, rrc) == stmt_miss(k, a, prc)

stmt_fn(k, a, prc, crc, rrc) ==
    IF Entry(k, a) # NoHandle
    THEN stmt_hit(k, Entry(k, a), crc, rrc)
    ELSE stmt_miss(k, a, prc)

\* Whether a prepare with these arguments and this status hands out a handle.
Allocates(sql, prc) == FitsCInt(TextLen(sql)) /\ prc = "SQLITE_OK" /\ sql # "empty"

\* A mutant of stmt_once: a text that has a static address goes through the
\* cache.
stmt_once_viaCache(k, sql, prc) ==
    IF \E a \in Addrs : TextOf(a) = sql
    THEN stmt_fn(k, CHOOSE a \in Addrs : TextOf(a) = sql, prc, "SQLITE_OK", "SQLITE_OK")
    ELSE build_stmt(k, sql, prc)

stmt_once(k, sql, prc) == build_stmt(k, sql, prc)

\* sqlite3_close: refused (SQLITE_BUSY, the handle stays open) while a
\* statement of the connection is unfinalized.
sqlite3_close_rc(k) == IF Unfinalized(k) # {} THEN "SQLITE_BUSY" ELSE "SQLITE_OK"

sqlite3_close(k) ==
    [k EXCEPT !.ndb.state = IF sqlite3_close_rc(k) = "SQLITE_OK" THEN "closed" ELSE @,
              !.ndb.closes = @ + 1,
              !.calls = Append(@, Call("sqlite3_close", NoHandle, "", sqlite3_close_rc(k)))]

\* HashMap::clear: every cached Stmt is dropped, in the order `order`.
RECURSIVE stmts_clear(_, _)
stmts_clear(k, order) ==
    IF order = <<>>
    THEN [k EXCEPT !.stmts = [a \in Addrs |-> NoHandle]]
    ELSE stmts_clear(Merge(k, drop_stmt(CtxIn(k, Head(order)))), Tail(order))

\* A mutant of drop: the handle is closed before the cache is cleared.
drop_closeFirst(k, order) ==
    [stmts_clear(sqlite3_close(k), order) EXCEPT !.conn = "dropped", !.ret = Void]

\* Drop for Connection.
drop(k, order) ==
    [sqlite3_close(stmts_clear(k, order)) EXCEPT !.conn = "dropped", !.ret = Void]

\* TryFrom<&Path> for Connection: `nul` is a path holding a NUL byte, rc the
\* status of sqlite3_open_v2 and `handed` whether it handed back a handle.
try_from(k, nul, rc, handed) ==
    IF nul
    THEN [k EXCEPT !.ret = Err("NulError"), !.conn = "failed"]
    ELSE LET k1 == [k EXCEPT !.ndb.state = IF handed THEN "open" ELSE "null",
                             !.calls = Append(@, Call("sqlite3_open_v2", NoHandle, "", rc))]
         IN  IF rc = "SQLITE_OK"
             THEN [k1 EXCEPT !.conn = "open", !.ret = Unit]
             ELSE [k1 EXCEPT !.conn = "failed", !.ret = Err(rc)]

\* The orders in which a set of handles can be visited.
Orders(S) == {s \in [1..Cardinality(S) -> S] : \A i, j \in 1..Cardinality(S) : s[i] = s[j] => i = j}

Cached == {stmts[a] : a \in Addrs} \ {NoHandle}

\* The statements the caller can call a method on: those it owns and the
\* one it borrowed from the cache with the latest stmt().
Usable == {h \in Handles : stmt[h].where = "caller"} \cup ({cur} \ {NoHandle})

(***************************************************************************)
(* Actions: one per operation of the public API.                           *)
(***************************************************************************)
\* The record of an operation: its name, the statement it acted on, its
\* arguments (address, index, value, byte length), the value it returned
\* and the state it began in.
Last(op, h, a, idx, ret, pre) ==
    [op |-> op, h |-> h, a |-> a, idx |-> idx, val |-> NullV, len |-> NoIndex,
     ret |-> ret, pre |-> pre, pre_stmts |-> stmts]

LastBind(op, h, idx, val, len, ret, pre) ==
    [Last(op, h, 0, idx, ret, pre) EXCEPT !.val = val, !.len = len]

Pre(h) == [w |-> stmt[h], n |-> nat[h]]

CommitK(k) ==
    /\ conn' = k.conn
    /\ ndb' = k.ndb
    /\ stmts' = k.stmts
    /\ stmt' = k.stmt
    /\ nat' = k.nat
    /\ ncalls' = k.calls

CommitM(m) ==
    /\ stmt' = [stmt EXCEPT ![m.h] = m.w]
    /\ nat' = [nat EXCEPT ![m.h] = m.n]
    /\ ncalls' = m.calls
    /\ UNCHANGED <<conn, ndb, stmts, cur>>

Open ==
    /\ conn = "none"
    /\ \E nul \in BOOLEAN, rc \in {"SQLITE_OK", "SQLITE_CANTOPEN"}, handed \in BOOLEAN :
         /\ rc = "SQLITE_OK" => handed
         /\ LET k == try_from(K0, nul, rc, handed)
            IN  /\ CommitK(k)
                /\ cur' = NoHandle
                /\ last' = Last("try_from", NoHandle, 0, NoIndex, k.ret, NoPre)

AcquireStmt ==
    /\ conn = "open"
    /\ \E a \in Addrs, prc \in {"SQLITE_OK", "SQLITE_ERROR"},
          crc \in {"SQLITE_OK", "SQLITE_NOMEM"}, rrc \in {"SQLITE_OK", "SQLITE_BUSY"} :
         /\ (Entry(K0, a) = NoHandle /\ Allocates(TextOf(a), prc)) => FreeHandles(K0) # {}
         /\ rrc \in (IF Entry(K0, a) # NoHandle THEN ResetStatuses(nat[Entry(K0, a)])
                                               ELSE {"SQLITE_OK"})
         /\ LET k == stmt_fn(K0, a, prc, crc, rrc)
            IN  /\ CommitK(k)
                /\ cur' = k.ret.h
                /\ last' = Last("stmt", IF stmts[a] # NoHandle THEN stmts[a] ELSE k.ret.h,
                                a, NoIndex, k.ret,
                                IF stmts[a] # NoHandle THEN Pre(stmts[a]) ELSE NoPre)

StmtOnce ==
    /\ conn = "open"
    /\ \E sql \in Texts, prc \in {"SQLITE_OK", "SQLITE_ERROR"} :
         /\ Allocates(sql, prc) => FreeHandles(K0) # {}
         /\ LET k == stmt_once(K0, sql, prc)
            IN  /\ CommitK(k)
                /\ cur' = NoHandle
                /\ last' = Last("stmt_once", k.ret.h, 0, NoIndex, k.ret, NoPre)

DropConnection ==
    /\ conn = "open"
    /\ \E order \in Orders(Cached) :
         LET k == drop(K0, order)
         IN  /\ CommitK(k)
             /\ cur' = NoHandle
             /\ last' = Last("drop", NoHandle, 0, NoIndex, k.ret, NoPre)

DropStmt ==
    \E h \in Handles :
      /\ stmt[h].where = "caller"
      /\ CommitM(drop_stmt(Ctx(h)))
      /\ last' = Last("drop_stmt", h, 0, NoIndex, Void, Pre(h))

Reset ==
    \E h \in Usable :
      \E rrc \in ResetStatuses(nat[h]) :
        LET m == reset(Ctx(h), rrc)
        IN  /\ CommitM(m)
            /\ last' = Last("reset", h, 0, NoIndex, m.ret, Pre(h))

Clear ==
    \E h \in Usable, rc \in {"SQLITE_OK", "SQLITE_NOMEM"} :
      \E rrc \in ResetStatuses(nat[h]) :
        LET m == clear(Ctx(h), rc, rrc)
        IN  /\ CommitM(m)
            /\ last' = Last("clear", h, 0, NoIndex, m.ret, Pre(h))

Step ==
    \E h \in Usable :
      \E rc \in StepStatuses(nat[h]) :
        LET m == step(Ctx(h), rc)
        IN  /\ CommitM(m)
            /\ last' = Last("step", h, 0, NoIndex, m.ret, Pre(h))

BindInt ==
    \E h \in Usable, index \in BindIndexes, val \in IntVals :
      \E rrc \in ResetStatuses(nat[h]) :
        LET m == bind_int(Ctx(h), index, val, rrc)
        IN  /\ CommitM(m)
            /\ last' = LastBind("bind_int", h, index, IntV(val), NoIndex, m.ret, Pre(h))

BindBlob ==
    \E h \in Usable, index \in BindIndexes, len \in BlobLens :
      \E rrc \in ResetStatuses(nat[h]) :
        LET m == bind_blob(Ctx(h), index, len, rrc)
        IN  /\ CommitM(m)
            /\ last' = LastBind("bind_blob", h, index, BlobV(AsCInt(len)), len, m.ret, Pre(h))

BindNull ==
    \E h \in Usable, index \in BindIndexes :
      \E rrc \in ResetStatuses(nat[h]) :
        LET m == bind_null(Ctx(h), index, rrc)
        IN  /\ CommitM(m)
            /\ last' = LastBind("bind_null", h, index, NullV, NoIndex, m.ret, Pre(h))

ColumnInt ==
    \E h \in Usable, index \in ColumnIndexes :
      LET m == column_int(Ctx(h), index)
      IN  /\ CommitM(m)
          /\ last' = Last("column_int", h, 0, index, m.ret, Pre(h))

ColumnBlob ==
    \E h \in Usable, index \in ColumnIndexes :
      LET m == column_blob(Ctx(h), index)
      IN  /\ CommitM(m)
          /\ last' = Last("column_blob", h, 0, index, m.ret, Pre(h))

Next ==
    \/ Open
    \/ AcquireStmt
    \/ StmtOnce
    \/ DropConnection
    \/ DropStmt
    \/ Reset
    \/ Clear
    \/ Step
    \/ BindInt
    \/ BindBlob
    \/ BindNull
    \/ ColumnInt
    \/ ColumnBlob

Spec == Init /\ [][Next]_vars

(***************************************************************************)
(* Properties.                                                             *)
(***************************************************************************)
IsCall(i, f) == i \in 1..Len(ncalls) /\ ncalls[i].f = f

CallsOf(f) == {i \in 1..Len(ncalls) : ncalls[i].f = f}

\* The handles the cache held when the last operation began.
PreCached == {last.pre_stmts[a] : a \in Addrs} \ {NoHandle}

\* The last operation was stmt() on an address whose entry was occupied.
CacheHit == last.op = "stmt" /\ last.pre_stmts[last.a] # NoHandle

\* C1: when a Connection is dropped, every Stmt of its cache is finalized
\* (once each), and every one of these finalize calls comes strictly
\* before the one sqlite3_close, whatever the cache holds.
C1_FinalizeBeforeClose ==
    last.op = "drop" =>
        /\ Cardinality(CallsOf("sqlite3_close")) = 1
        /\ \A h \in PreCached :
             Cardinality({i \in CallsOf("sqlite3_finalize") : ncalls[i].h = h}) = 1
        /\ \A i \in CallsOf("sqlite3_finalize") : \A j \in CallsOf("sqlite3_close") : i < j

C1_Witness == last.op = "drop" /\ Cardinality(PreCached) >= 2

\* C2: sqlite3_close is never invoked while a statement prepared from the
\* connection, cached or handed to the caller by stmt_once, is unfinalized.
C2_CloseAfterEveryStatement ==
    last.op = "drop" => \A h \in Handles : nat[h].alloc # "live"

\* C3: dropping the Connection leaks nothing: every statement handle that
\* was in the cache has been finalized exactly once and the database handle
\* has been closed, by exactly one sqlite3_close.
C3_DropLeaksNothing ==
    last.op = "drop" =>
        /\ \A h \in PreCached : nat[h].alloc = "finalized" /\ nat[h].fin = 1
        /\ ndb.state = "closed"
        /\ ndb.closes = 1

\* C4: the cache never holds two live prepared handles for one address:
\* every live Stmt that was inserted under address a is the entry of a.
C4_OneHandlePerIdentity ==
    \A a \in Addrs :
        LET live == {h \in Handles : /\ stmt[h].where = "cache"
                                     /\ stmt[h].key = a
                                     /\ nat[h].alloc = "live"}
        IN  /\ Cardinality(live) <= 1
            /\ live \subseteq {stmts[a]}

C4_Witness == CacheHit /\ last.ret.kind = "stmt" /\ Cardinality(Cached) >= 2

\* C5: once stmt(q) succeeded, the entry of q's address stays what it is for
\* as long as the connection lives, a later stmt(q) makes no prepare call,
\* leaves the cache as it is and returns that same handle; a successful
\* stmt(q) always leaves q's own address holding the handle returned, and
\* two addresses never share a handle, even when their texts are equal.
C5_CacheByAddress ==
    /\ CacheHit =>
         /\ CallsOf("sqlite3_prepare_v2") = {}
         /\ stmts = last.pre_stmts
         /\ last.ret.kind \in {"stmt", "panic"}
         /\ last.ret.kind = "stmt" => last.ret.h = last.pre_stmts[last.a]
    /\ (last.op = "stmt" /\ last.ret.kind = "stmt") => stmts[last.a] = last.ret.h
    /\ \A h \in Handles :
         (stmt[h].key # 0 /\ conn = "open") =>
             /\ stmts[stmt[h].key] = h
             /\ stmt[h].where = "cache"
             /\ nat[h].alloc = "live"
    /\ \A a, b \in Addrs :
         (a # b /\ stmts[a] # NoHandle /\ stmts[b] # NoHandle) => stmts[a] # stmts[b]

C5_Witness ==
    /\ CacheHit
    /\ last.ret.kind = "stmt"
    /\ \E b \in Addrs : b # last.a /\ TextOf(b) = TextOf(last.a) /\ stmts[b] # NoHandle

\* The Stmt the last operation acted on, and its native statement.
W == stmt[last.h]

N == nat[last.h]

BindOps == {"bind_int", "bind_blob", "bind_null"}

BindCalls == {"sqlite3_bind_int64", "sqlite3_bind_blob", "sqlite3_bind_null"}

ColumnOps == {"column_int", "column_blob"}

\* C6: a cache hit returns the statement only after sqlite3_reset and then
\* sqlite3_clear_bindings were called on it: on return it is not positioned
\* on a row (nor is the native statement) and every parameter is NULL,
\* whatever state it was left in.  (When clear-bindings fails the call
\* aborts after the reset and returns nothing.)
C6_HitClears ==
    CacheHit =>
        /\ Len(ncalls) = 2
        /\ ncalls[1].f = "sqlite3_reset" /\ ncalls[1].h = last.h
        /\ ncalls[1].ex = last.pre.n.exec
        /\ ncalls[2].f = "sqlite3_clear_bindings" /\ ncalls[2].h = last.h
        /\ ~W.is_row /\ N.exec = "ready"
        /\ last.ret.kind = "stmt" =>
             /\ ncalls[2].rc = "SQLITE_OK"
             /\ \A i \in 1..Len(N.binds) : N.binds[i] = NullV

C6_Witness ==
    /\ CacheHit
    /\ last.ret.kind = "stmt"
    /\ last.pre.w.is_row
    /\ last.pre.n.binds = <<IntV(7)>>

\* C7: step has three outcomes, decided by the status of sqlite3_step: DONE
\* -> reset, not on a row, Ok(false); ROW -> on a row, no reset, Ok(true);
\* any other status -> reset, not on a row, Err(status), never an abort.
C7_StepOutcomes ==
    last.op = "step" =>
        /\ Len(ncalls) >= 1
        /\ ncalls[1].f = "sqlite3_step" /\ ncalls[1].h = last.h
        /\ CASE ncalls[1].rc = "SQLITE_DONE" ->
                  /\ last.ret = OkBool(FALSE)
                  /\ Len(ncalls) = 2 /\ ncalls[2].f = "sqlite3_reset" /\ ncalls[2].h = last.h
                  /\ ~W.is_row /\ N.exec = "ready"
             [] ncalls[1].rc = "SQLITE_ROW" ->
                  /\ last.ret = OkBool(TRUE)
                  /\ Len(ncalls) = 1
                  /\ W.is_row /\ N.exec = "row"
             [] OTHER ->
                  /\ last.ret = Err(ncalls[1].rc)
                  /\ Len(ncalls) = 2 /\ ncalls[2].f = "sqlite3_reset" /\ ncalls[2].h = last.h
                  /\ ~W.is_row /\ N.exec = "ready"

\* A step that fails on a statement that an earlier step left on a row.
C7_Witness == last.op = "step" /\ last.pre.w.is_row /\ last.ret.kind = "err"

\* C8: a bind on a statement positioned on a row calls sqlite3_reset first,
\* before any native bind, and leaves it off the row; a bind on a statement
\* not on a row calls no reset; so no native bind is ever made on a native
\* statement that is on a row.
C8_BindResetsFirst ==
    last.op \in BindOps =>
        /\ IF last.pre.w.is_row
           THEN /\ Len(ncalls) >= 1
                /\ ncalls[1].f = "sqlite3_reset" /\ ncalls[1].h = last.h
                /\ \A i \in 2..Len(ncalls) : ncalls[i].f \in BindCalls
                /\ ~W.is_row
           ELSE CallsOf("sqlite3_reset") = {}
        /\ \A i \in 1..Len(ncalls) : ncalls[i].f \in BindCalls => ncalls[i].ex = "ready"

C8_Witness ==
    /\ last.op = "bind_blob"
    /\ last.pre.w.is_row
    /\ last.ret = Unit
    /\ Len(ncalls) = 2

\* C9: reset calls sqlite3_reset, clears the row flag and changes neither a
\* bound value nor the column count; the same holds of the resets inside
\* step and bind: step changes no binding, and a bind changes at most the
\* binding of its own index, and none when it fails.
C9_ResetKeepsBindings ==
    /\ last.op = "reset" =>
         /\ Len(ncalls) = 1
         /\ ncalls[1].f = "sqlite3_reset" /\ ncalls[1].h = last.h
         /\ ncalls[1].ex = last.pre.n.exec
         /\ ~W.is_row
         /\ N.binds = last.pre.n.binds
         /\ W.column_count = last.pre.w.column_count
    /\ last.op = "step" =>
         /\ N.binds = last.pre.n.binds
         /\ W.column_count = last.pre.w.column_count
    /\ last.op \in BindOps =>
         /\ W.column_count = last.pre.w.column_count
         /\ Len(N.binds) = Len(last.pre.n.binds)
         /\ \A i \in 1..Len(N.binds) :
              (last.ret # Unit \/ i # AsCInt(last.idx)) => N.binds[i] = last.pre.n.binds[i]

C9_Witness ==
    /\ last.op = "reset"
    /\ last.pre.w.is_row
    /\ N.binds = <<IntV(7)>>

\* C10: a column read on a statement that is not positioned on a row, or
\* with an index not below the column count, aborts before any native call
\* and changes nothing; and a statement is not positioned on a row when it
\* is fresh, after a step that did not return Ok(true), and after a reset,
\* a clear, a bind or a cache hit.
C10_ColumnContract ==
    /\ (last.op \in ColumnOps
          /\ (~last.pre.w.is_row \/ ~USizeLess(last.idx, last.pre.w.column_count))) =>
         /\ last.ret = Panic
         /\ ncalls = <<>>
         /\ W = last.pre.w /\ N = last.pre.n
    /\ (\/ last.op \in {"reset", "clear"} \cup BindOps
        \/ last.op = "step" /\ last.ret # OkBool(TRUE)
        \/ last.op \in {"stmt", "stmt_once"} /\ last.h # NoHandle) => ~W.is_row

\* An out-of-range read of a statement that is on a row.
C10_Witness ==
    /\ last.op = "column_int"
    /\ last.pre.w.is_row
    /\ last.idx = USize(0, 1)
    /\ last.ret = Panic

\* The value the engine holds for column 0 of the row the last operation's
\* statement is on.
Column0 == IF N.text = "literal" THEN TextV ELSE N.binds[1]

\* C11: a column read whose two preconditions hold asks the engine for the
\* column's type and dispatches on it: NULL -> None (both methods);
\* INTEGER -> Some(the integer) for column_int; BLOB -> Some(the bytes) for
\* column_blob; every other type, INTEGER for column_blob and BLOB for
\* column_int included, aborts.  The read changes nothing.
C11_ColumnDispatch ==
    (last.op \in ColumnOps /\ last.pre.w.is_row
        /\ USizeLess(last.idx, last.pre.w.column_count)) =>
        /\ Len(ncalls) >= 1
        /\ ncalls[1].f = "sqlite3_column_type" /\ ncalls[1].h = last.h
        /\ ncalls[1].rc = CASE Column0.t = "null" -> "SQLITE_NULL"
                            [] Column0.t = "int" -> "SQLITE_INTEGER"
                            [] Column0.t = "blob" -> "SQLITE_BLOB"
                            [] Column0.t = "text" -> "SQLITE_TEXT"
        /\ CASE ncalls[1].rc = "SQLITE_NULL" ->
                  last.ret = None /\ Len(ncalls) = 1
             [] ncalls[1].rc = "SQLITE_INTEGER" /\ last.op = "column_int" ->
                  /\ last.ret = Some(Column0)
                  /\ Len(ncalls) = 2 /\ ncalls[2].f = "sqlite3_column_int64"
             [] ncalls[1].rc = "SQLITE_BLOB" /\ last.op = "column_blob" ->
                  /\ last.ret = Some(Column0)
                  /\ Len(ncalls) = 3 /\ ncalls[2].f = "sqlite3_column_blob"
                  /\ ncalls[3].f = "sqlite3_column_bytes"
             [] OTHER ->
                  last.ret = Panic /\ Len(ncalls) = 1
        /\ W = last.pre.w /\ N = last.pre.n

\* column_blob on a column that holds an integer.
C11_Witness ==
    /\ last.op = "column_blob"
    /\ Len(ncalls) >= 1 /\ ncalls[1].rc = "SQLITE_INTEGER"
    /\ last.ret = Panic

\* The last call of the last operation is a sqlite3_clear_bindings that
\* reported a failure.
ClearBindingsFailed ==
    /\ Len(ncalls) >= 1
    /\ ncalls[Len(ncalls)].f = "sqlite3_clear_bindings"
    /\ ncalls[Len(ncalls)].rc # "SQLITE_OK"

\* C12: the wrapper aborts in exactly two classes of situation: (a) a
\* clear (called directly or by a cache hit) whose sqlite3_clear_bindings
\* reports a failure, and (b) a column read in the wrong state, with an
\* out-of-bounds index or of a column of another type.  Every other
\* outcome of open, prepare (stmt miss or stmt_once), bind and step, for
\* every status and handle the engine returns, is a value or an Err.
C12_TwoAbortClasses ==
    last.ret = Panic =>
        \/ (last.op = "clear" \/ CacheHit) /\ ClearBindingsFailed
        \/ /\ last.op \in ColumnOps
           /\ \/ ~last.pre.w.is_row
              \/ ~USizeLess(last.idx, last.pre.w.column_count)
              \/ /\ Len(ncalls) = 1 /\ ncalls[1].f = "sqlite3_column_type"
                 /\ ncalls[1].rc \notin {"SQLITE_NULL",
                                        IF last.op = "column_int" THEN "SQLITE_INTEGER"
                                                                  ELSE "SQLITE_BLOB"}

\* The native calls whose status the wrapper is to report, and the statuses
\* that are not failures.
ReportedCalls ==
    {"sqlite3_open_v2", "sqlite3_prepare_v2", "sqlite3_step", "sqlite3_reset",
     "sqlite3_clear_bindings"} \cup BindCalls

Successes == {"SQLITE_OK", "SQLITE_ROW", "SQLITE_DONE"}

\* C13: whenever a native call made inside a wrapper operation (open,
\* prepare, step, reset, clear-bindings, bind) reports a non-success
\* status, the operation returns that status as an Err (or, for
\* clear-bindings only, aborts): no failure status is discarded.
C13_NoStatusDiscarded ==
    \A i \in 1..Len(ncalls) :
        (ncalls[i].f \in ReportedCalls /\ ncalls[i].rc \notin Successes) =>
            \/ last.ret = Err(ncalls[i].rc)
            \/ ncalls[i].f = "sqlite3_clear_bindings" /\ last.ret = Panic

\* The last operation was a step that returned Ok(false).
StepNoRow == last.op = "step" /\ last.ret = OkBool(FALSE)

\* A reset or a clear of the statement that the operation before stepped.
ThenResetOrClear == last'.op \in {"reset", "clear"} /\ last'.h = last.h

\* C14 as stated: after step returned Ok(false) the statement is not on a
\* row, and a reset or clear that follows completes without error or
\* abort and leaves it off the row.
C14_AfterNoRow_asStated ==
    /\ [](StepNoRow => ~W.is_row)
    /\ [][(StepNoRow /\ ThenResetOrClear) =>
             /\ last'.ret \in {Void, Unit}
             /\ ~stmt'[last.h].is_row]_vars

\* C14: after step returned Ok(false) the statement is not on a row (nor
\* is the native statement mid-execution); a reset that follows completes
\* and a clear that follows returns Ok(()) unless its
\* sqlite3_clear_bindings reports a failure, in which case it aborts; in
\* every case the statement stays off the row and can be stepped again.
C14_AfterNoRow ==
    /\ [](StepNoRow => ~W.is_row /\ N.exec = "ready")
    /\ [][(StepNoRow /\ ThenResetOrClear) =>
             /\ ~stmt'[last.h].is_row /\ nat'[last.h].exec = "ready"
             /\ last.h \in Usable'
             /\ last'.op = "reset" => last'.ret = Void
             /\ last'.op = "clear" =>
                  \/ last'.ret = Unit
                  \/ last'.ret = Panic /\ ClearBindingsFailed']_vars

\* A select, stepped to its row and then stepped to completion.
C14_Witness == StepNoRow /\ last.pre.w.is_row /\ N.text = "select"

\* C15: the round trip of an integer V through SELECT ?1: a bind_int of V
\* at index 1 that returns Ok leaves V bound to parameter 1, also when it
\* had to reset the statement first; the step that follows returns
\* Ok(true) on SQLITE_ROW and changes no binding; and column_int(0) on that
\* row yields Some(V), the value bound, for every V of IntVals.
C15_RoundTrip ==
    /\ (last.op = "bind_int" /\ last.ret = Unit) =>
         /\ last.val.t = "int"
         /\ N.binds[AsCInt(last.idx)] = last.val
    /\ (last.op = "step" /\ N.text = "select") =>
         /\ N.binds = last.pre.n.binds
         /\ (~last.pre.w.is_row /\ last.ret.kind # "err") => last.ret = OkBool(TRUE)
    /\ (last.op = "column_int" /\ N.text = "select" /\ last.pre.w.is_row
          /\ last.idx = USize(0, 0) /\ last.pre.n.binds[1].t = "int") =>
         /\ last.ret = Some(last.pre.n.binds[1])
         /\ N.binds = last.pre.n.binds

\* The negative value, bound and read back.
C15_Witness == last.op = "column_int" /\ last.ret = Some(IntV(-1))

\* C16: stmt_once neither reads nor modifies the cache: whether it succeeds
\* or fails, every address maps to the handle it mapped to before, no
\* statement that existed before is touched (the only native call is the
\* prepare), and the Stmt returned is the caller's, not the cache's, with a
\* handle distinct from every cached handle, also when the same text is
\* cached.
C16_StmtOnceOutsideCache ==
    /\ [](last.op = "stmt_once" =>
            /\ stmts = last.pre_stmts
            /\ \A i \in 1..Len(ncalls) :
                 ncalls[i].f = "sqlite3_prepare_v2" /\ ncalls[i].h = NoHandle
            /\ last.ret.kind = "stmt" =>
                 /\ last.ret.h \notin Cached
                 /\ W.where = "caller" /\ W.key = 0
                 /\ N.alloc = "live"
                 /\ \A a \in Addrs : last.pre_stmts[a] # last.ret.h)
    /\ [][last'.op = "stmt_once" =>
             /\ stmts' = stmts
             /\ \A h \in Handles \ {last'.ret.h} : stmt'[h] = stmt[h] /\ nat'[h] = nat[h]
             /\ last'.ret.kind = "stmt" => nat[last'.ret.h].alloc = "free"]_vars

\* stmt_once of a text that the cache holds a statement for.
C16_Witness ==
    /\ last.op = "stmt_once"
    /\ last.ret.kind = "stmt"
    /\ \E a \in Addrs : stmts[a] # NoHandle /\ TextOf(a) = N.text

\* The last operation made no native bind call and changed no binding.
NothingBound ==
    /\ \A i \in 1..Len(ncalls) : ncalls[i].f \notin BindCalls
    /\ N.binds = last.pre.n.binds

\* C17 as stated: an index beyond c_int yields a range error and, for
\* bind_blob, a length beyond c_int yields a "too big" error; in both
\* cases no native bind is made and no binding changes.
C17_ConversionErrors_asStated ==
    last.op \in BindOps =>
        /\ ~FitsCInt(last.idx) => last.ret = Err("SQLITE_RANGE") /\ NothingBound
        /\ (last.op = "bind_blob" /\ ~FitsCInt(last.len)) =>
             last.ret = Err("SQLITE_TOOBIG") /\ NothingBound

\* C17: for the three binds an index beyond c_int yields a range error;
\* for bind_blob a length beyond c_int, with an index that fits, yields a
\* "too big" error (the index is converted first, so when both are beyond
\* c_int the error is the range error); in all these cases no native bind
\* is made and no binding changes.
C17_ConversionErrors ==
    last.op \in BindOps =>
        /\ ~FitsCInt(last.idx) => last.ret = Err("SQLITE_RANGE") /\ NothingBound
        /\ (last.op = "bind_blob" /\ FitsCInt(last.idx) /\ ~FitsCInt(last.len)) =>
             last.ret = Err("SQLITE_TOOBIG") /\ NothingBound

\* An oversized blob, bound at an index that fits, on a statement holding
\* a binding.
C17_Witness ==
    /\ last.op = "bind_blob"
    /\ FitsCInt(last.idx) /\ ~FitsCInt(last.len)
    /\ last.ret = Err("SQLITE_TOOBIG")
    /\ N.binds = <<IntV(7)>>

\* The last operation was stmt() on an address whose entry was vacant, and
\* whether it called sqlite3_prepare_v2 (once, and nothing else).
CacheMiss == last.op = "stmt" /\ last.pre_stmts[last.a] = NoHandle

Prepared == Len(ncalls) = 1 /\ ncalls[1].f = "sqlite3_prepare_v2"

\* C18: a stmt() that misses the cache returns Err when sqlite3_prepare_v2
\* reports a non-success status (that status) and when the text's length
\* does not fit c_int (SQLITE_TOOBIG, sqlite3_prepare_v2 not called); it
\* then leaves the cache and every statement as they were, the address
\* still vacant, so that a later stmt() of the same address is a miss
\* again and attempts the preparation again.
C18_FailedMissLeavesCache ==
    /\ [](CacheMiss =>
            /\ IF FitsCInt(TextLen(TextOf(last.a)))
               THEN Prepared
               ELSE ncalls = <<>> /\ last.ret = Err("SQLITE_TOOBIG")
            /\ (Prepared /\ ncalls[1].rc # "SQLITE_OK") => last.ret = Err(ncalls[1].rc)
            /\ last.ret.kind = "err" =>
                 /\ stmts = last.pre_stmts
                 /\ stmts[last.a] = NoHandle)
    /\ [][(last'.op = "stmt" /\ last'.ret.kind = "err") =>
             /\ stmts' = stmts
             /\ stmt' = stmt /\ nat' = nat]_vars
    /\ [][(CacheMiss /\ last.ret.kind = "err" /\ last'.op = "stmt" /\ last'.a = last.a) =>
             /\ last'.pre_stmts[last.a] = NoHandle
             /\ Prepared' \/ last'.ret = Err("SQLITE_TOOBIG")]_vars

\* A preparation that the engine refused, while the cache holds a statement.
C18_Witness ==
    /\ CacheMiss
    /\ last.ret = Err("SQLITE_ERROR")
    /\ Cached # {}

\* The last operation was a bind on a statement positioned on a row, and it
\* returned an Err.
FailedBindOnRow == last.op \in BindOps /\ last.pre.w.is_row /\ last.ret.kind = "err"

\* C19: a bind that fails on a statement positioned on a row (index or
\* length beyond c_int, or a failure of the native bind) has reset the
\* statement all the same: sqlite3_reset was called first, the statement
\* is no longer on a row, and a column read that follows aborts.
C19_FailedBindHasReset ==
    /\ [](FailedBindOnRow =>
            /\ Len(ncalls) >= 1
            /\ ncalls[1].f = "sqlite3_reset" /\ ncalls[1].h = last.h
            /\ ~W.is_row /\ N.exec = "ready")
    /\ [][(FailedBindOnRow /\ last'.op \in ColumnOps /\ last'.h = last.h) =>
             last'.ret = Panic /\ ncalls' = <<>>]_vars

\* A null bound at an index beyond c_int, on a row.
C19_Witness ==
    /\ FailedBindOnRow
    /\ last.op = "bind_null"
    /\ ~FitsCInt(last.idx)

\* The sqlite3_step and sqlite3_reset calls the last operation made on its
\* statement, and the latest of them.
StepsAndResets ==
    {i \in 1..Len(ncalls) :
        ncalls[i].h = last.h /\ ncalls[i].f \in {"sqlite3_step", "sqlite3_reset"}}

LatestStepOrReset == CHOOSE i \in StepsAndResets : \A j \in StepsAndResets : j <= i

\* C20: for every live statement is_row agrees with the engine: it is TRUE
\* exactly when the native statement is on a row, and when it is FALSE the
\* native statement is reset, not mid-execution; and every operation
\* leaves is_row TRUE exactly when the latest sqlite3_step on the handle
\* returned SQLITE_ROW with no sqlite3_reset after it.
C20_FlagAgreesWithEngine ==
    /\ \A h \in Handles :
         nat[h].alloc = "live" =>
             /\ stmt[h].is_row <=> nat[h].exec = "row"
             /\ ~stmt[h].is_row => nat[h].exec = "ready"
    /\ (last.h # NoHandle /\ N.alloc = "live") =>
         (W.is_row <=> IF StepsAndResets = {}
                       THEN last.pre.w.is_row
                       ELSE /\ ncalls[LatestStepOrReset].f = "sqlite3_step"
                            /\ ncalls[LatestStepOrReset].rc = "SQLITE_ROW")

\* A bind that resets one statement while another stays on its row.
C20_Witness ==
    /\ last.op \in BindOps
    /\ last.pre.w.is_row
    /\ \E g \in Handles \ {last.h} : nat[g].alloc = "live" /\ stmt[g].is_row

\* C21: every database handle that sqlite3_open_v2 produced is passed to
\* sqlite3_close exactly once: a try_from that fails returns an Err,
\* constructs no Connection and leaves no handle unclosed, also when the
\* failed sqlite3_open_v2 handed a handle back; and the handle of a
\* Connection is closed by one sqlite3_close call when it is dropped, and
\* by none before.
C21_EveryHandleClosedOnce ==
    /\ (last.op = "try_from" /\ last.ret.kind = "err") => conn = "failed"
    /\ conn = "failed" => ndb.state # "open"
    /\ conn = "open" => ndb.closes = 0
    /\ conn = "dropped" => ndb.closes = 1

====
